---- MODULE Spec2Model ----
(***************************************************************************)
(* A model of snec: the Handle / Receiver runtime (src/src/handle.rs,      *)
(* src/src/receiver.rs) and the ConfigTable derive generator               *)
(* (src/macros/src/drv_config_table.rs and drv_config_table/mod.rs).       *)
(***************************************************************************)
EXTENDS Integers, Sequences, FiniteSets, TLC

(***************************************************************************)
(* Bounds                                                                  *)
(***************************************************************************)
\* values of E::Data are 0..MaxVal
MaxVal == 2
\* at most MaxNotes notifications are delivered in one run
MaxNotes == 3
\* at most MaxDepth ModificationScopes are open at once (nesting via AsMut)
MaxDepth == 2

Vals == 0..MaxVal
\* the closures passed to modify_with / modify_silently_with
Callbacks == [Vals -> Vals]

VARIABLES
    target,     \* Handle::target, the field's storage (*self.target)
    received,   \* Handle::receiver: the values its receive() was called with
    scopes,     \* the open ModificationScopes, innermost last
    pc,         \* position inside the Handle method being executed
    panicking,  \* a panic is unwinding the stack
    last        \* the most recent Handle operation (call record)

VARIABLES
    ver,        \* which derive_config_table_expand runs: "v1" is
                \* drv_config_table.rs, "v2" is drv_config_table/mod.rs
    gpc,        \* position inside derive_config_table_expand
    struct_attrs,   \* the struct's attributes read so far
    fields,     \* the fields read so far, each with the attributes read
    cfg,        \* the struct-level options (receiver, entry module, ...)
    requested_get_impls,
    requested_generated_entries,
    output,     \* Some(token stream) once the function returned Ok
    error       \* Some(message) once the function returned Err

VARIABLES
    arg_ident,  \* the Ident that snake_to_camel is called with
    converted   \* the outcomes of the calls of snake_to_camel made so far,
                \* each call taking the identifier the last one returned

VARIABLES
    adapter,    \* the built-in Receiver implementation the handle's receiver
                \* is: "RefCell", "&RefCell", "Mutex", "&Mutex", "RwLock",
                \* "&RwLock"
    holder,     \* who holds the cell's borrow or the lock: "none", "adapter"
                \* (the receive call), "self" (the thread that mutates, outside
                \* receive), "other" (another thread)
    poisoned,   \* the lock's poison flag
    failure     \* why receive() panicked

VARIABLES
    eq_f,       \* the closure both forms of a modification are run with
    eq_start,   \* the handle's state both runs start in
    eq_scoped   \* Some(state the scoped form ended in) once it has run

VARIABLES
    constructed,    \* how many times the receiver expression was evaluated
    made,       \* how many handles get_handle returned
    owner,      \* the receiver instance the live handle owns, 0 if no
                \* handle borrows the table
    receivers,  \* what the receivers of the dropped handles received
    got         \* Some(what the last get_ref returned)

hvars == <<target, received, scopes, pc, panicking, last>>
gvars == <<ver, gpc, struct_attrs, fields, cfg, requested_get_impls,
           requested_generated_entries, output, error>>
cvars == <<arg_ident, converted>>
avars == <<adapter, holder, poisoned, failure>>
evars == <<eq_f, eq_start, eq_scoped>>
ivars == <<constructed, made, owner, receivers, got>>
ovars == <<evars, ivars>>
xvars == <<cvars, avars, ovars>>
vars == <<target, received, scopes, pc, panicking, last,
          ver, gpc, struct_attrs, fields, cfg, requested_get_impls,
          requested_generated_entries, output, error,
          arg_ident, converted, adapter, holder, poisoned, failure,
          eq_f, eq_start, eq_scoped,
          constructed, made, owner, receivers, got>>

NoOp == [op |-> "none", pre |-> 0, expect |-> 0, n0 |-> 0,
         status |-> "returned", changed |-> FALSE, kind |-> "none"]

\* every open scope will notify once when dropped, so an operation that
\* notifies starts only while the log has room for it and for those drops
Room == Len(received) + Len(scopes) < MaxNotes

\* a write through a scope or the handle marks every open scope as changed
MarkScopes(changed) ==
    [i \in 1..Len(scopes) |-> [scopes[i] EXCEPT !.changed = @ \/ changed]]

\* a receiver that is not reached
Receive_NotCalled(log, new_value) == log

\* Receiver::receive of a recording receiver: the new value is appended
Receive(log, new_value) == Append(log, new_value)

\* Option: None is the empty sequence, Some(x) has the one element x
None == <<>>
Some(x) == <<x>>
IsSome(o) == Len(o) > 0
IsNone(o) == Len(o) = 0
UnwrapOr(o, d) == IF Len(o) = 0 THEN d ELSE o[1]

NoCfg == [receiver |-> None, receiver_expr |-> None, receiver_type |-> None,
          entry_module |-> None, entry_module_visibility |-> None,
          entry_module_attributes |-> <<>>]

\* the generator is not running
GenOff ==
    /\ ver = "none"
    /\ gpc = "off"
    /\ struct_attrs = <<>>
    /\ fields = <<>>
    /\ cfg = NoCfg
    /\ requested_get_impls = <<>>
    /\ requested_generated_entries = <<>>
    /\ output = None
    /\ error = None

\* an Ident is its text with its span
MkIdent(text, span) == [text |-> text, span |-> span]

\* snake_to_camel is not being called
CamelOff ==
    /\ arg_ident = MkIdent(<<>>, "none")
    /\ converted = <<>>

\* no receiver adapter is in use
AdapterOff ==
    /\ adapter = "none"
    /\ holder = "none"
    /\ poisoned = FALSE
    /\ failure = "none"

\* the two forms of a modification are not being compared
EqOff ==
    /\ eq_f = <<>>
    /\ eq_start = <<>>
    /\ eq_scoped = <<>>

\* no config table is in use
TableOff ==
    /\ constructed = 0
    /\ made = 0
    /\ owner = 0
    /\ receivers = <<>>
    /\ got = <<>>

Init ==
    /\ target \in Vals
    /\ received = <<>>
    /\ scopes = <<>>
    /\ pc = "idle"
    /\ panicking = FALSE
    /\ last = NoOp
    /\ GenOff
    /\ CamelOff
    /\ AdapterOff
    /\ EqOff
    /\ TableOff

Ready == pc = "idle" /\ ~panicking

\* Handle::set, first statement: *self.target = new_value
SetWrite(new_value) ==
    /\ Ready /\ Room
    /\ target' = new_value
    /\ scopes' = MarkScopes(new_value # target)
    /\ pc' = "set_receive"
    /\ last' = [op |-> "set", pre |-> target, expect |-> new_value,
                n0 |-> Len(received), status |-> "running",
                changed |-> (new_value # target), kind |-> "none"]
    /\ UNCHANGED <<received, panicking>>
    /\ UNCHANGED <<gvars, xvars>>

\* a set that hands the receiver the value the field held before the write
SetReceive_OldValue ==
    /\ pc = "set_receive"
    /\ received' = Receive(received, last.pre)
    /\ pc' = "idle"
    /\ last' = [last EXCEPT !.status = "returned"]
    /\ UNCHANGED <<target, scopes, panicking>>
    /\ UNCHANGED <<gvars, xvars>>

\* Handle::set, second statement: self.receiver.receive(self.target)
SetReceive ==
    /\ pc = "set_receive"
    /\ received' = Receive(received, target)
    /\ pc' = "idle"
    /\ last' = [last EXCEPT !.status = "returned"]
    /\ UNCHANGED <<target, scopes, panicking>>
    /\ UNCHANGED <<gvars, xvars>>

\* Handle::modify: the scope is created, nothing else happens
Modify ==
    /\ Ready /\ Room
    /\ Len(scopes) < MaxDepth
    /\ scopes' = Append(scopes, [pre |-> target, n0 |-> Len(received),
                                 changed |-> FALSE])
    /\ last' = [op |-> "modify", pre |-> target, expect |-> target,
                n0 |-> Len(received), status |-> "returned",
                changed |-> FALSE, kind |-> "none"]
    /\ UNCHANGED <<target, received, pc, panicking>>
    /\ UNCHANGED <<gvars, xvars>>

\* DerefMut for ModificationScope: the scope's user writes the value
ScopeWrite(v) ==
    /\ Ready
    /\ scopes # <<>>
    /\ target' = v
    /\ scopes' = MarkScopes(v # target)
    /\ last' = [op |-> "deref_mut", pre |-> target, expect |-> v,
                n0 |-> Len(received), status |-> "returned",
                changed |-> (v # target), kind |-> "none"]
    /\ UNCHANGED <<received, pc, panicking>>
    /\ UNCHANGED <<gvars, xvars>>

\* the code running inside a scope panics
ScopePanic ==
    /\ Ready
    /\ scopes # <<>>
    /\ panicking' = TRUE
    /\ UNCHANGED <<target, received, scopes, pc, last>>
    /\ UNCHANGED <<gvars, xvars>>

\* a drop that notifies only when the scope ends without a panic
ScopeDrop_NotOnUnwind(kind) ==
    /\ pc = "idle"
    /\ scopes # <<>>
    /\ panicking <=> (kind = "unwind")
    /\ received' = IF kind = "unwind" THEN received
                   ELSE Receive(received, target)
    /\ scopes' = SubSeq(scopes, 1, Len(scopes) - 1)
    /\ last' = [op |-> "drop", pre |-> scopes[Len(scopes)].pre,
                expect |-> target, n0 |-> Len(received),
                status |-> "returned",
                changed |-> scopes[Len(scopes)].changed, kind |-> kind]
    /\ UNCHANGED <<target, pc, panicking>>
    /\ UNCHANGED <<gvars, xvars>>

\* Drop for ModificationScope: runs at the normal end of the scope, at an
\* early return, and while a panic unwinds through the scope
ScopeDrop(kind) ==
    /\ pc = "idle"
    /\ scopes # <<>>
    /\ panicking <=> (kind = "unwind")
    /\ received' = Receive(received, target)
    /\ scopes' = SubSeq(scopes, 1, Len(scopes) - 1)
    /\ last' = [op |-> "drop", pre |-> scopes[Len(scopes)].pre,
                expect |-> target, n0 |-> Len(received),
                status |-> "returned",
                changed |-> scopes[Len(scopes)].changed, kind |-> kind]
    /\ UNCHANGED <<target, pc, panicking>>
    /\ UNCHANGED <<gvars, xvars>>

\* the panic stops unwinding (std::panic::catch_unwind in a caller)
Catch ==
    /\ pc = "idle"
    /\ panicking
    /\ panicking' = FALSE
    /\ UNCHANGED <<target, received, scopes, pc, last>>
    /\ UNCHANGED <<gvars, xvars>>

\* Handle::modify_with, first statement: f(&mut self.target); the closure
\* may panic after it has written
ModifyWithCall(f, panics) ==
    /\ Ready /\ Room
    /\ target' = f[target]
    /\ scopes' = MarkScopes(f[target] # target)
    /\ pc' = IF panics THEN "idle" ELSE "modify_with_receive"
    /\ panicking' = panics
    /\ last' = [op |-> "modify_with", pre |-> target, expect |-> f[target],
                n0 |-> Len(received),
                status |-> IF panics THEN "panicked" ELSE "running",
                changed |-> (f[target] # target), kind |-> "none"]
    /\ UNCHANGED <<received>>
    /\ UNCHANGED <<gvars, xvars>>

\* a modify_with that notifies with the value the closure was given
ModifyWithReceive_PreValue ==
    /\ pc = "modify_with_receive"
    /\ received' = Receive(received, last.pre)
    /\ pc' = "idle"
    /\ last' = [last EXCEPT !.status = "returned"]
    /\ UNCHANGED <<target, scopes, panicking>>
    /\ UNCHANGED <<gvars, xvars>>

\* Handle::modify_with, second statement: self.receiver.receive(self.target)
ModifyWithReceive ==
    /\ pc = "modify_with_receive"
    /\ received' = Receive(received, target)
    /\ pc' = "idle"
    /\ last' = [last EXCEPT !.status = "returned"]
    /\ UNCHANGED <<target, scopes, panicking>>
    /\ UNCHANGED <<gvars, xvars>>

\* a set_silently that notifies like set
SetSilently_Notifies(new_value) ==
    /\ Ready /\ Room
    /\ target' = new_value
    /\ received' = Receive(received, new_value)
    /\ scopes' = MarkScopes(new_value # target)
    /\ last' = [op |-> "set_silently", pre |-> target, expect |-> new_value,
                n0 |-> Len(received), status |-> "returned",
                changed |-> (new_value # target), kind |-> "none"]
    /\ UNCHANGED <<pc, panicking>>
    /\ UNCHANGED <<gvars, xvars>>

\* Handle::set_silently
SetSilently(new_value) ==
    /\ Ready
    /\ target' = new_value
    /\ scopes' = MarkScopes(new_value # target)
    /\ last' = [op |-> "set_silently", pre |-> target, expect |-> new_value,
                n0 |-> Len(received), status |-> "returned",
                changed |-> (new_value # target), kind |-> "none"]
    /\ UNCHANGED <<received, pc, panicking>>
    /\ UNCHANGED <<gvars, xvars>>

\* Handle::modify_silently, and a write through the reference it returns
ModifySilently(v) ==
    /\ Ready
    /\ target' = v
    /\ scopes' = MarkScopes(v # target)
    /\ last' = [op |-> "modify_silently", pre |-> target, expect |-> v,
                n0 |-> Len(received), status |-> "returned",
                changed |-> (v # target), kind |-> "none"]
    /\ UNCHANGED <<received, pc, panicking>>
    /\ UNCHANGED <<gvars, xvars>>

\* Handle::modify_silently_with
ModifySilentlyWith(f, panics) ==
    /\ Ready
    /\ target' = f[target]
    /\ scopes' = MarkScopes(f[target] # target)
    /\ panicking' = panics
    /\ last' = [op |-> "modify_silently_with", pre |-> target,
                expect |-> f[target], n0 |-> Len(received),
                status |-> IF panics THEN "panicked" ELSE "returned",
                changed |-> (f[target] # target), kind |-> "none"]
    /\ UNCHANGED <<received, pc>>
    /\ UNCHANGED <<gvars, xvars>>

Next ==
    \/ \E v \in Vals : SetWrite(v)
    \/ SetReceive
    \/ Modify
    \/ \E v \in Vals : ScopeWrite(v)
    \/ ScopePanic
    \/ \E kind \in {"normal", "return", "unwind"} : ScopeDrop(kind)
    \/ Catch
    \/ \E f \in Callbacks, panics \in BOOLEAN : ModifyWithCall(f, panics)
    \/ ModifyWithReceive
    \/ \E v \in Vals : SetSilently(v)
    \/ \E v \in Vals : ModifySilently(v)
    \/ \E f \in Callbacks, panics \in BOOLEAN : ModifySilentlyWith(f, panics)

Spec == Init /\ [][Next]_vars

(***************************************************************************)
(* The ConfigTable derive generator: data                                  *)
(***************************************************************************)
\* at most MaxFields fields in the struct
MaxFields == 2
\* at most MaxCmds commands in one #[snec(...)] attribute
MaxCmds == 2
\* at most MaxTotal attributes and commands in the whole derive input
MaxTotal == 3

\* identifiers are sequences of characters
\* the field declarations a struct is made of: name and declared type
MkField(ident, ty) == [ident |-> ident, ty |-> ty]
FieldDecls == { MkField(<<"a">>, "i32"),
                MkField(<<"a", "_", "b">>, "String"),
                MkField(<<"a", "_", "_", "b">>, "u8") }
StructName == <<"T">>
\* names given to entry(Name)
MarkerNames == { <<"X">> }
\* the module name given to entry_module
ModuleNames == { <<"m">> }

MkPath(leading_colon, segments) ==
    [leading_colon |-> leading_colon, segments |-> segments]

\* paths given to use_entry(M)
UsePaths == { MkPath(FALSE, << <<"M">> >>) }

\* a conversion that swaps the case of a letter
ToUppercase_Toggle(x) ==
    CASE x = "a" -> "A"
      [] x = "b" -> "B"
      [] x = "c" -> "C"
      [] x = "A" -> "a"
      [] x = "B" -> "b"
      [] OTHER -> x

\* char::to_uppercase().next().unwrap() on the characters used here
ToUppercase(x) ==
    CASE x = "a" -> "A"
      [] x = "b" -> "B"
      [] x = "c" -> "C"
      [] OTHER -> x

RECURSIVE SnakeFold(_, _, _, _)
\* the fold of snake_to_camel: the accumulator is previous_was_underscore
SnakeFold(ident, i, previous_was_underscore, result) ==
    IF i > Len(ident) THEN result
    ELSE IF ident[i] = "_" THEN SnakeFold(ident, i + 1, TRUE, result)
    ELSE SnakeFold(ident, i + 1, FALSE,
            Append(result, IF previous_was_underscore
                           THEN ToUppercase(ident[i]) ELSE ident[i]))

\* a conversion whose fold starts with previous_was_underscore = false, so
\* that the first character keeps its case
snake_to_camel_LowerStart(ident) == SnakeFold(ident, 1, FALSE, <<>>)

snake_to_camel(ident) == SnakeFold(ident, 1, TRUE, <<>>)

concat_to_path(x, y) == MkPath(FALSE, <<x, y>>)

default_receiver_expr == "::snec::EmptyReceiver"
default_receiver_type == "::snec::EmptyReceiver"
default_entry_module == <<"e", "n", "t", "r", "i", "e", "s">>

\* the attributes and commands read so far
RECURSIVE SumCost(_, _)
SumCost(attrs, i) ==
    IF i > Len(attrs) THEN 0
    ELSE (IF Len(attrs[i].commands) = 0 THEN 1 ELSE Len(attrs[i].commands))
         + SumCost(attrs, i + 1)

RECURSIVE FieldsCost(_, _)
FieldsCost(fs, i) ==
    IF i > Len(fs) THEN 0 ELSE SumCost(fs[i].attrs, 1) + FieldsCost(fs, i + 1)

InputCost == SumCost(struct_attrs, 1) + FieldsCost(fields, 1)
AttrCost(attr) == IF Len(attr.commands) = 0 THEN 1 ELSE Len(attr.commands)
Affordable(attr) == InputCost + AttrCost(attr) <= MaxTotal

\* all sequences over S of length 1..n
SeqsUpTo(S, n) == UNION { [1..k -> S] : k \in 1..n }

GenQuiet ==
    UNCHANGED <<hvars, xvars>>

\* the handle is not running
HandleOff ==
    /\ target = 0
    /\ received = <<>>
    /\ scopes = <<>>
    /\ pc = "idle"
    /\ panicking = FALSE
    /\ last = NoOp

GenInit ==
    /\ HandleOff
    /\ CamelOff
    /\ AdapterOff
    /\ EqOff
    /\ TableOff
    /\ ver \in {"v1", "v2"}
    /\ gpc = "struct_attrs"
    /\ struct_attrs = <<>>
    /\ fields = <<>>
    /\ cfg = NoCfg
    /\ requested_get_impls = <<>>
    /\ requested_generated_entries = <<>>
    /\ output = None
    /\ error = None

\* an error return that still hands out an (empty) entry module
Fail_PartialOutput(msg) ==
    /\ gpc' = "err"
    /\ error' = Some(msg)
    /\ output' = Some([module_attrs |-> <<>>, module_vis |-> "Inherited",
                       module |-> default_entry_module,
                       module_items |-> <<>>, items |-> <<>>])

\* return Err(...): nothing is emitted
Fail(msg) ==
    /\ gpc' = "err"
    /\ error' = Some(msg)
    /\ output' = None

\* `for field in fields`: the next field of the struct is taken up
FieldBegin(field) ==
    /\ gpc = "fields"
    /\ Len(fields) < MaxFields
    /\ \A i \in 1..Len(fields) : fields[i].ident # field.ident
    /\ fields' = Append(fields, [ident |-> field.ident, ty |-> field.ty,
                                 attrs |-> <<>>])
    /\ UNCHANGED <<ver, gpc, struct_attrs, cfg, requested_get_impls,
                   requested_generated_entries, output, error>>
    /\ GenQuiet

\* the current field with one more attribute read
WithAttr(attr) ==
    [fields EXCEPT ![Len(fields)].attrs = Append(@, attr)]

Ok(v) == [ok |-> TRUE, val |-> v, err |-> ""]
Err(msg) == [ok |-> FALSE, val |-> <<>>, err |-> msg]

(***************************************************************************)
(* drv_config_table/mod.rs ("v2")                                          *)
(***************************************************************************)
\* an attribute is [ns, form, commands]: ns is the attribute's path ("snec"
\* or another crate's), form is "Path" for a bare #[snec] and "List" for
\* #[snec(...)], commands is what stands between the parentheses
MkAttr(ns, form, commands) == [ns |-> ns, form |-> form, commands |-> commands]
ForeignAttr == MkAttr("other", "Path", <<>>)
BareAttr == MkAttr("snec", "Path", <<>>)
\* #[snec(...)] whose arguments do not follow the grammar of any command
MalformedAttr == MkAttr("snec", "Malformed", <<>>)

\* the AttributeCommand values
NoPath == MkPath(FALSE, <<>>)
NoCmd == [cmd |-> "", name |-> None, path |-> NoPath, expression |-> "",
          ty |-> "", ident |-> <<>>, vis |-> "", attrs |-> <<>>]
\* Entry { value: Option<Ident> }
CmdEntry(value) == [NoCmd EXCEPT !.cmd = "Entry", !.name = value]
\* UseEntry { value: Path }
CmdUseEntry(value) == [NoCmd EXCEPT !.cmd = "UseEntry", !.path = value]
\* Receiver { expression, ty }
CmdReceiver(expression, ty) ==
    [NoCmd EXCEPT !.cmd = "Receiver", !.expression = expression, !.ty = ty]
\* EntryModule { value: Ident }
CmdEntryModule(value) == [NoCmd EXCEPT !.cmd = "EntryModule", !.ident = value]
\* EntryModuleVisibility { value: Visibility }
CmdEntryModuleVisibility(value) ==
    [NoCmd EXCEPT !.cmd = "EntryModuleVisibility", !.vis = value]
\* EntryModuleAttributes { value: Vec<Attribute> }
CmdEntryModuleAttributes(value) ==
    [NoCmd EXCEPT !.cmd = "EntryModuleAttributes", !.attrs = value]

\* SnecAttribute::try_from: Some(body) for an attribute of this crate, where
\* body is None for a bare attribute; an error for any other attribute and
\* for an attribute of this crate that does not parse
SnecAttribute_try_from(attr) ==
    IF attr.ns = "snec" /\ attr.form = "Malformed"
    THEN Err("unrecognized [snec(...)] attribute syntax")
    ELSE IF attr.ns = "snec"
    THEN Ok([body |-> IF attr.form = "Path" THEN None ELSE Some(attr.commands)])
    ELSE Err("not a snec attribute")

\* AttributeCommand::default(): the command a bare #[snec] stands for
AttributeCommand_default == CmdEntry(None)

\* filter_to_snec_attributes, for one attribute: errors become None
filter_to_snec_attributes(attr) ==
    IF SnecAttribute_try_from(attr).ok
    THEN Some(SnecAttribute_try_from(attr).val) ELSE None

V2FieldCommandSet ==
    { CmdEntry(None),
      CmdReceiver("R1::new()", "R1"),
      CmdEntryModule(<<"m">>),
      CmdEntryModuleVisibility("pub"),
      CmdEntryModuleAttributes(<<"#[allow(x)]">>) }
        \cup { CmdEntry(Some(n)) : n \in MarkerNames }
        \cup { CmdUseEntry(p) : p \in UsePaths }

V2StructCommandSet ==
    { CmdReceiver("R0::new()", "R0"), CmdReceiver("R1::new()", "R1"),
      CmdEntryModuleVisibility("pub"),
      CmdEntryModuleAttributes(<<"#[allow(x)]">>),
      CmdEntry(None), CmdUseEntry(MkPath(FALSE, << <<"M">> >>)) }
        \cup { CmdEntryModule(n) : n \in ModuleNames }

V2FieldAttrs ==
    { ForeignAttr, BareAttr, MalformedAttr }
        \cup { MkAttr("snec", "List", cs) : cs \in SeqsUpTo(V2FieldCommandSet, MaxCmds) }

V2StructAttrs ==
    { ForeignAttr, BareAttr, MalformedAttr }
        \cup { MkAttr("snec", "List", cs) : cs \in SeqsUpTo(V2StructCommandSet, MaxCmds) }

RECURSIVE V2StructCommands(_, _, _)
\* `for command in body.commands` over the struct's commands
V2StructCommands(commands, i, c) ==
    IF i > Len(commands) THEN Ok(c)
    ELSE LET command == commands[i] IN
        CASE command.cmd = "EntryModule" ->
                V2StructCommands(commands, i + 1,
                    [c EXCEPT !.entry_module = Some(command.ident)])
          [] command.cmd = "EntryModuleVisibility" ->
                V2StructCommands(commands, i + 1,
                    [c EXCEPT !.entry_module_visibility = Some(command.vis)])
          [] command.cmd = "EntryModuleAttributes" ->
                V2StructCommands(commands, i + 1,
                    [c EXCEPT !.entry_module_attributes = @ \o command.attrs])
          [] command.cmd = "Receiver" ->
                V2StructCommands(commands, i + 1,
                    [c EXCEPT !.receiver_expr = Some(command.expression),
                              !.receiver_type = Some(command.ty)])
          [] command.cmd = "Entry" ->
                Err("[snec(entry(...))] attribute cannot be applied to whole struct")
          [] command.cmd = "UseEntry" ->
                Err("[snec(use_entry(...))] attribute cannot be applied to whole struct")

\* one turn of `for attr in filter_to_snec_attributes(struct_input.attrs)`
V2StructAttr(attr) ==
    /\ ver = "v2"
    /\ gpc = "struct_attrs"
    /\ Affordable(attr)
    /\ struct_attrs' = Append(struct_attrs, attr)
    /\ LET snec == filter_to_snec_attributes(attr) IN
        IF IsNone(snec)
        THEN UNCHANGED <<gpc, cfg, output, error>>
        ELSE IF IsNone(snec[1].body)
        THEN /\ Fail("bare [snec] attribute cannot be applied to whole struct")
             /\ UNCHANGED cfg
        ELSE LET r == V2StructCommands(snec[1].body[1], 1, cfg) IN
             IF r.ok
             THEN /\ cfg' = r.val
                  /\ UNCHANGED <<gpc, output, error>>
             ELSE /\ Fail(r.err)
                  /\ UNCHANGED cfg
    /\ UNCHANGED <<ver, fields, requested_get_impls, requested_generated_entries>>
    /\ GenQuiet

\* a resolution whose entry module is public unless told otherwise
V2ResolveDefaults_PubModule ==
    /\ ver = "v2"
    /\ gpc = "struct_attrs"
    /\ cfg' = [cfg EXCEPT
            !.receiver_expr = Some(UnwrapOr(@, default_receiver_expr)),
            !.receiver_type = Some(UnwrapOr(@, default_receiver_type)),
            !.entry_module = Some(UnwrapOr(@, default_entry_module)),
            !.entry_module_visibility = Some(UnwrapOr(@, "pub"))]
    /\ gpc' = "fields"
    /\ UNCHANGED <<ver, struct_attrs, fields, requested_get_impls,
                   requested_generated_entries, output, error>>
    /\ GenQuiet

\* the tuple of unwrap_or_else(...) that ends the struct-level block
V2ResolveDefaults ==
    /\ ver = "v2"
    /\ gpc = "struct_attrs"
    /\ cfg' = [cfg EXCEPT
            !.receiver_expr = Some(UnwrapOr(@, default_receiver_expr)),
            !.receiver_type = Some(UnwrapOr(@, default_receiver_type)),
            !.entry_module = Some(UnwrapOr(@, default_entry_module)),
            !.entry_module_visibility = Some(UnwrapOr(@, "Inherited"))]
    /\ gpc' = "fields"
    /\ UNCHANGED <<ver, struct_attrs, fields, requested_get_impls,
                   requested_generated_entries, output, error>>
    /\ GenQuiet

V2FieldState0 ==
    [generate_get_impl |-> FALSE, custom_marker_path |-> None,
     generate_entry |-> FALSE, custom_marker_name |-> None,
     custom_receiver_expr |-> None, custom_receiver_type |-> None]

RECURSIVE V2FieldCommands(_, _, _)
\* `for command in commands` over one attribute of a field
V2FieldCommands(commands, i, st) ==
    IF i > Len(commands) THEN Ok(st)
    ELSE LET command == commands[i] IN
        CASE command.cmd = "Entry" ->
                V2FieldCommands(commands, i + 1,
                    IF IsSome(command.name)
                    THEN [st EXCEPT
                            !.custom_marker_path = Some(concat_to_path(
                                cfg.entry_module[1], command.name[1])),
                            !.custom_marker_name = Some(command.name[1]),
                            !.generate_get_impl = TRUE,
                            !.generate_entry = TRUE]
                    ELSE [st EXCEPT !.generate_get_impl = TRUE,
                                    !.generate_entry = TRUE])
          [] command.cmd = "UseEntry" ->
                V2FieldCommands(commands, i + 1,
                    [st EXCEPT !.generate_get_impl = TRUE,
                               !.custom_marker_path = Some(command.path)])
          [] command.cmd = "Receiver" ->
                V2FieldCommands(commands, i + 1,
                    [st EXCEPT !.custom_receiver_expr = Some(command.expression),
                               !.custom_receiver_type = Some(command.ty)])
          [] command.cmd = "EntryModule" ->
                Err("the [snec(entry_module(...))] attribute can only be applied to the whole struct")
          [] command.cmd = "EntryModuleVisibility" ->
                Err("the [snec(entry_module_visibility(...))] attribute can only be applied to the whole struct")
          [] command.cmd = "EntryModuleAttributes" ->
                Err("the [snec(entry_module_attributes(...))] attribute can only be applied to the whole struct")

\* a request that names the marker after the field whatever entry(...) said
V2RequestedGeneratedEntry_ConvertedName(field, st) ==
    [field_name |-> field.ident,
     field_type |-> field.ty,
     marker_name |-> snake_to_camel(field.ident)]

\* the RequestedGeneratedEntry pushed for one attribute
V2RequestedGeneratedEntry(field, st) ==
    [field_name |-> field.ident,
     field_type |-> field.ty,
     marker_name |-> UnwrapOr(st.custom_marker_name, snake_to_camel(field.ident))]

\* a request that always binds the generated marker path
V2RequestedGetImpl_GeneratedPath(field, st) ==
    [field_name |-> field.ident,
     receiver_expr |-> UnwrapOr(st.custom_receiver_expr, cfg.receiver_expr[1]),
     receiver_type |-> UnwrapOr(st.custom_receiver_type, cfg.receiver_type[1]),
     marker_path |-> concat_to_path(cfg.entry_module[1],
                                    snake_to_camel(field.ident))]

\* the RequestedGetImpl pushed for one attribute
V2RequestedGetImpl(field, st) ==
    [field_name |-> field.ident,
     receiver_expr |-> UnwrapOr(st.custom_receiver_expr, cfg.receiver_expr[1]),
     receiver_type |-> UnwrapOr(st.custom_receiver_type, cfg.receiver_type[1]),
     marker_path |-> UnwrapOr(st.custom_marker_path,
                        concat_to_path(cfg.entry_module[1],
                                       snake_to_camel(field.ident)))]

\* one turn of `for attr in filter_to_snec_attributes(field.attrs)`
V2FieldAttr(attr) ==
    /\ ver = "v2"
    /\ gpc = "fields"
    /\ fields # <<>>
    /\ Affordable(attr)
    /\ fields' = WithAttr(attr)
    /\ LET snec == filter_to_snec_attributes(attr)
           field == fields[Len(fields)]
       IN
        IF IsNone(snec)
        THEN UNCHANGED <<gpc, requested_get_impls,
                         requested_generated_entries, output, error>>
        ELSE LET commands == IF IsSome(snec[1].body) THEN snec[1].body[1]
                             ELSE <<AttributeCommand_default>>
                 r == V2FieldCommands(commands, 1, V2FieldState0)
             IN
             IF r.ok
             THEN /\ requested_generated_entries' =
                        IF r.val.generate_entry
                        THEN Append(requested_generated_entries,
                                    V2RequestedGeneratedEntry(field, r.val))
                        ELSE requested_generated_entries
                  /\ requested_get_impls' =
                        IF r.val.generate_get_impl
                        THEN Append(requested_get_impls,
                                    V2RequestedGetImpl(field, r.val))
                        ELSE requested_get_impls
                  /\ UNCHANGED <<gpc, output, error>>
             ELSE /\ Fail(r.err)
                  /\ UNCHANGED <<requested_get_impls, requested_generated_entries>>
    /\ UNCHANGED <<ver, struct_attrs, cfg>>
    /\ GenQuiet

\* the `impl ::snec::Get<#entry_path> for #struct_name` of one request
V2GetImpl(get_impl_data) ==
    [item |-> "impl Get",
     marker |-> get_impl_data.marker_path,
     for |-> StructName,
     field |-> get_impl_data.field_name,
     receiver_type |-> get_impl_data.receiver_type,
     receiver |-> [expr |-> get_impl_data.receiver_expr, call |-> FALSE]]

\* the `pub enum #entry_name {}` of one request
V2EntryEnum(entry_data) ==
    [item |-> "enum", name |-> entry_data.marker_name,
     doc_field |-> entry_data.field_name, doc_struct |-> StructName]

\* a binding whose NAME is the marker's name
V2EntryImpl_MarkerName(entry_data) ==
    [item |-> "impl Entry",
     for |-> MkPath(FALSE, <<cfg.entry_module[1], entry_data.marker_name>>),
     data |-> entry_data.field_type,
     name |-> entry_data.marker_name]

\* the `impl ::snec::Entry for #entry_module::#entry_name` of one request
V2EntryImpl(entry_data) ==
    [item |-> "impl Entry",
     for |-> MkPath(FALSE, <<cfg.entry_module[1], entry_data.marker_name>>),
     data |-> entry_data.field_type,
     name |-> entry_data.field_name]

\* the two loops over the requests and the final quote!
V2Emit ==
    /\ ver = "v2"
    /\ gpc = "fields"
    /\ LET get_impls == [i \in 1..Len(requested_get_impls) |->
                            V2GetImpl(requested_get_impls[i])]
           generated_entries == [i \in 1..Len(requested_generated_entries) |->
                            V2EntryEnum(requested_generated_entries[i])]
           entry_impls == [i \in 1..Len(requested_generated_entries) |->
                            V2EntryImpl(requested_generated_entries[i])]
       IN output' = Some([module_attrs |-> cfg.entry_module_attributes,
                          module_vis |-> cfg.entry_module_visibility[1],
                          module |-> cfg.entry_module[1],
                          module_items |-> generated_entries,
                          items |-> get_impls \o entry_impls])
    /\ gpc' = "done"
    /\ UNCHANGED <<ver, struct_attrs, fields, cfg, requested_get_impls,
                   requested_generated_entries, error>>
    /\ GenQuiet

(***************************************************************************)
(* drv_config_table.rs ("v1"), with matching.rs                            *)
(***************************************************************************)
\* syn::Lit: a string literal carries what its text parses as
AnnotatedReceiverFn(receiver_fn, annotation) ==
    [receiver_fn |-> receiver_fn, annotation |-> annotation]
LitInt == [lit |-> "Int", parses_as |-> "none",
           receiver |-> AnnotatedReceiverFn("", ""), ident |-> <<>>]
\* "path -> Type"
LitStrReceiver(receiver_fn, annotation) ==
    [LitInt EXCEPT !.lit = "Str", !.parses_as = "receiver",
                   !.receiver = AnnotatedReceiverFn(receiver_fn, annotation)]
\* "name"
LitStrIdent(ident) ==
    [LitInt EXCEPT !.lit = "Str", !.parses_as = "ident", !.ident = ident]

\* syn::NestedMeta
\* name is the identifier of a List or NameValue (path.is_ident(name))
NMList(name, args) ==
    [nested |-> "Meta", meta |-> "List", name |-> name, path |-> NoPath,
     args |-> args, lit |-> LitInt]
NMNameValue(name, lit) ==
    [nested |-> "Meta", meta |-> "NameValue", name |-> name, path |-> NoPath,
     args |-> <<>>, lit |-> lit]
NMPath(path) ==
    [nested |-> "Meta", meta |-> "Path", name |-> "", path |-> path,
     args |-> <<>>, lit |-> LitInt]
NMLit(lit) ==
    [nested |-> "Lit", meta |-> "none", name |-> "", path |-> NoPath,
     args |-> <<>>, lit |-> lit]

LitR0 == LitStrReceiver("R0::new", "R0")
LitR1 == LitStrReceiver("R1::new", "R1")

\* matching.rs
meta_path(meta) ==
    IF meta.meta = "Path" THEN Ok(meta.path)
    ELSE Err("unrecognized [snec(...)] attribute syntax")
nested_meta_normal(nested_meta) ==
    IF nested_meta.nested = "Meta" THEN Ok(nested_meta)
    ELSE Err("unrecognized [snec(...)] attribute syntax")
nested_meta_literal(nested_meta) ==
    IF nested_meta.nested = "Lit" THEN Ok(nested_meta.lit)
    ELSE Err("unrecognized [snec(...)] attribute syntax")
lit_str(lit) ==
    IF lit.lit = "Str" THEN Ok(lit) ELSE Err("incorrect literal type")

\* LitStr::parse::<AnnotatedReceiverFn>()
ParseReceiver(lit) ==
    IF lit.parses_as = "receiver" THEN Ok(lit.receiver) ELSE Err("expected ->")
\* LitStr::parse::<Ident>()
ParseIdent(lit) ==
    IF lit.parses_as = "ident" THEN Ok(lit.ident) ELSE Err("expected identifier")

default_receiver ==
    AnnotatedReceiverFn("::snec::EmptyReceiver::new", "::snec::EmptyReceiver")

path_to_generated_entry(generated_module, entry_name, field_ident) ==
    MkPath(generated_module.leading_colon,
           Append(generated_module.segments,
                  UnwrapOr(entry_name, snake_to_camel(field_ident))))

V1FieldItems ==
    { NMList("use_entry", <<>>),
      NMList("entry", <<>>),
      NMList("entry", << NMLit(LitR1) >>),
      NMPath(MkPath(FALSE, << <<"e", "n", "t", "r", "y">> >>)),
      NMNameValue("receiver", LitR1),
      NMNameValue("entry_module", LitStrIdent(<<"m">>)) }
        \cup { NMList("use_entry", << NMPath(p) >>) : p \in UsePaths }
        \cup { NMList("use_entry", << NMPath(p), NMLit(LitR1) >>) : p \in UsePaths }
        \cup { NMList("entry", << NMPath(MkPath(FALSE, <<n>>)) >>) : n \in MarkerNames }

V1StructItems ==
    { NMNameValue("receiver", LitR0),
      NMNameValue("receiver", LitR1),
      NMNameValue("receiver", LitInt),
      NMNameValue("entry_module", LitStrIdent(<<"m">>)),
      NMList("entry", <<>>),
      NMList("use_entry", << NMPath(MkPath(FALSE, << <<"M">> >>)) >>) }

V1FieldAttrs ==
    { ForeignAttr, BareAttr, MkAttr("snec", "NameValue", <<>>) }
        \cup { MkAttr("snec", "List", cs) : cs \in SeqsUpTo(V1FieldItems, MaxCmds) }

V1StructAttrs ==
    { ForeignAttr, BareAttr, MkAttr("snec", "NameValue", <<>>),
      MkAttr("other", "Tokens", <<>>) }
        \cup { MkAttr("snec", "List", cs) : cs \in SeqsUpTo(V1StructItems, MaxCmds) }

\* Attribute::parse_meta
parse_meta(attr) ==
    IF attr.form \in {"Path", "List", "NameValue"} THEN Ok(attr)
    ELSE Err("expected attribute arguments in meta syntax")

handle_snec_struct_attribute(attribute) ==
    IF attribute.meta # "NameValue"
    THEN Err("unrecognized [snec(...)] attribute syntax")
    ELSE IF attribute.name = "receiver"
    THEN IF ~lit_str(attribute.lit).ok THEN lit_str(attribute.lit)
         ELSE IF ~ParseReceiver(attribute.lit).ok THEN ParseReceiver(attribute.lit)
         ELSE Ok([outcome |-> "SetDefaultReceiver",
                  x |-> ParseReceiver(attribute.lit).val])
    ELSE IF attribute.name = "entry_module"
    THEN IF ~lit_str(attribute.lit).ok THEN lit_str(attribute.lit)
         ELSE IF ~ParseIdent(attribute.lit).ok THEN ParseIdent(attribute.lit)
         ELSE Ok([outcome |-> "SetGenEntryModule",
                  x |-> ParseIdent(attribute.lit).val])
    ELSE Err("unknown [snec(...)] sub-attribute")

RECURSIVE V1StructNested(_, _, _)
\* `for action in meta_list.nested` of handle_struct_attribute
V1StructNested(nested, i, result) ==
    IF i > Len(nested) THEN Ok(result)
    ELSE IF ~nested_meta_normal(nested[i]).ok THEN nested_meta_normal(nested[i])
    ELSE LET r == handle_snec_struct_attribute(nested_meta_normal(nested[i]).val) IN
         IF ~r.ok THEN r
         ELSE V1StructNested(nested, i + 1, Append(result, r.val))

handle_struct_attribute(attribute) ==
    IF attribute.ns # "snec" THEN Ok(<< [outcome |-> "Ignore"] >>)
    ELSE IF attribute.form = "Path"
    THEN Err("empty [snec] attributes are not allowed")
    ELSE IF attribute.form = "NameValue"
    THEN Err("[snec = ...] attributes are not allowed")
    ELSE V1StructNested(attribute.commands, 1, <<>>)

RECURSIVE V1StructOutcomes(_, _, _)
\* `for outcome in outcomes` over the struct's outcomes
V1StructOutcomes(outcomes, i, c) ==
    IF i > Len(outcomes) THEN Ok(c)
    ELSE LET outcome == outcomes[i] IN
        CASE outcome.outcome = "SetDefaultReceiver" ->
                IF IsNone(c.receiver)
                THEN V1StructOutcomes(outcomes, i + 1,
                        [c EXCEPT !.receiver = Some(outcome.x)])
                ELSE Err("cannot set multiple default receivers at once")
          [] outcome.outcome = "SetGenEntryModule" ->
                IF IsNone(c.entry_module)
                THEN V1StructOutcomes(outcomes, i + 1,
                        [c EXCEPT !.entry_module = Some(outcome.x)])
                ELSE Err("cannot set multiple modules for generated entry markers at once")
          [] outcome.outcome = "Ignore" ->
                V1StructOutcomes(outcomes, i + 1, c)

\* one turn of `for attribute in item.attrs`
V1StructAttr(attr) ==
    /\ ver = "v1"
    /\ gpc = "struct_attrs"
    /\ Affordable(attr)
    /\ struct_attrs' = Append(struct_attrs, attr)
    /\ LET m == parse_meta(attr)
           outcomes == IF m.ok THEN handle_struct_attribute(m.val) ELSE m
           r == IF outcomes.ok THEN V1StructOutcomes(outcomes.val, 1, cfg)
                ELSE outcomes
       IN IF r.ok
          THEN /\ cfg' = r.val
               /\ UNCHANGED <<gpc, output, error>>
          ELSE /\ Fail(r.err)
               /\ UNCHANGED cfg
    /\ UNCHANGED <<ver, fields, requested_get_impls, requested_generated_entries>>
    /\ GenQuiet

\* the tuple that ends the struct-level block
V1ResolveDefaults ==
    /\ ver = "v1"
    /\ gpc = "struct_attrs"
    /\ cfg' = [cfg EXCEPT
            !.receiver = Some(UnwrapOr(@, default_receiver)),
            !.entry_module = Some(UnwrapOr(@, default_entry_module))]
    /\ gpc' = "fields"
    /\ UNCHANGED <<ver, struct_attrs, fields, requested_get_impls,
                   requested_generated_entries, output, error>>
    /\ GenQuiet

RECURSIVE V1EntryArgs(_, _, _, _)
\* `for argument in meta_list.nested` of the entry(...) command
V1EntryArgs(args, i, entry_name, receiver_name) ==
    IF i > Len(args)
    THEN Ok([outcome |-> "CreateEntryAndGetImpl",
             entry_name |-> entry_name, receiver_name |-> receiver_name])
    ELSE LET argument == args[i] IN
        IF nested_meta_normal(argument).ok
        THEN IF IsSome(entry_name)
             THEN Err("cannot specify entry marker type name twice")
             ELSE IF ~meta_path(argument).ok THEN meta_path(argument)
             ELSE IF Len(argument.path.segments) # 1 \/ argument.path.leading_colon
             THEN Err("unrecognized [snec(...)] attribute syntax")
             ELSE V1EntryArgs(args, i + 1, Some(argument.path.segments[1]),
                              receiver_name)
        ELSE IF IsSome(receiver_name)
             THEN Err("cannot specify receiver source twice")
             ELSE IF ~lit_str(argument.lit).ok THEN lit_str(argument.lit)
             ELSE IF ~ParseReceiver(argument.lit).ok THEN ParseReceiver(argument.lit)
             ELSE V1EntryArgs(args, i + 1, entry_name,
                              Some(ParseReceiver(argument.lit).val))

handle_snec_field_attribute(attribute) ==
    IF attribute.meta # "List"
    THEN Err("unrecognized [snec(...)] attribute syntax")
    ELSE IF attribute.name = "use_entry"
    THEN LET num_args == Len(attribute.args) IN
         IF ~(num_args = 1 \/ num_args = 2)
         THEN Err("wrong number of arguments (expected 1 or 2)")
         ELSE IF ~nested_meta_normal(attribute.args[1]).ok
         THEN nested_meta_normal(attribute.args[1])
         ELSE IF ~meta_path(attribute.args[1]).ok
         THEN meta_path(attribute.args[1])
         ELSE IF num_args = 2 /\ ~nested_meta_literal(attribute.args[2]).ok
         THEN nested_meta_literal(attribute.args[2])
         ELSE IF num_args = 2 /\ ~lit_str(attribute.args[2].lit).ok
         THEN lit_str(attribute.args[2].lit)
         ELSE IF num_args = 2 /\ ~ParseReceiver(attribute.args[2].lit).ok
         THEN ParseReceiver(attribute.args[2].lit)
         ELSE Ok([outcome |-> "RequestGetImpl",
                  entry_name |-> meta_path(attribute.args[1]).val,
                  receiver_name |->
                    IF num_args = 2
                    THEN Some(ParseReceiver(attribute.args[2].lit).val)
                    ELSE None])
    ELSE IF attribute.name = "entry"
    THEN IF Len(attribute.args) > 2
         THEN Err("wrong number of arguments (expected 0, 1 or 2)")
         ELSE V1EntryArgs(attribute.args, 1, None, None)
    ELSE Err("unknown [snec(...)] sub-attribute")

RECURSIVE V1FieldNested(_, _, _)
\* `for action in meta_list.nested` of handle_field_attribute
V1FieldNested(nested, i, result) ==
    IF i > Len(nested) THEN Ok(result)
    ELSE IF ~nested_meta_normal(nested[i]).ok THEN nested_meta_normal(nested[i])
    ELSE LET r == handle_snec_field_attribute(nested_meta_normal(nested[i]).val) IN
         IF ~r.ok THEN r
         ELSE V1FieldNested(nested, i + 1, Append(result, r.val))

handle_field_attribute(attribute) ==
    IF attribute.ns # "snec" THEN Ok(<< [outcome |-> "Ignore"] >>)
    ELSE IF attribute.form = "Path"
    THEN Ok(<< [outcome |-> "CreateEntryAndGetImpl",
                entry_name |-> None, receiver_name |-> None] >>)
    ELSE IF attribute.form = "NameValue"
    THEN Err("[snec = ...] attributes are not allowed")
    ELSE V1FieldNested(attribute.commands, 1, <<>>)

V1ModulePath == MkPath(FALSE, <<cfg.entry_module[1]>>)

\* a resolution that drops the receiver given with the command
V1Receiver_AlwaysDefault(receiver_name) == cfg.receiver[1]

\* receiver_name.unwrap_or_else(|| default_receiver.clone())
V1Receiver(receiver_name) == UnwrapOr(receiver_name, cfg.receiver[1])

RECURSIVE V1FieldOutcomes(_, _, _, _)
\* `for outcome in outcomes` over one attribute of a field: the requests
\* pushed, as [get_impls, entries]
V1FieldOutcomes(outcomes, i, field, acc) ==
    IF i > Len(outcomes) THEN acc
    ELSE LET outcome == outcomes[i] IN
        CASE outcome.outcome = "RequestGetImpl" ->
                V1FieldOutcomes(outcomes, i + 1, field,
                    [acc EXCEPT !.get_impls = Append(@,
                        [field_name |-> field.ident,
                         marker_path |-> outcome.entry_name,
                         receiver |-> V1Receiver(outcome.receiver_name)])])
          [] outcome.outcome = "CreateEntryAndGetImpl" ->
                V1FieldOutcomes(outcomes, i + 1, field,
                    [acc EXCEPT
                        !.get_impls = Append(@,
                            [field_name |-> field.ident,
                             marker_path |-> path_to_generated_entry(
                                V1ModulePath, outcome.entry_name, field.ident),
                             receiver |-> V1Receiver(outcome.receiver_name)]),
                        !.entries = Append(@,
                            [field_name |-> field.ident,
                             marker_name |-> UnwrapOr(outcome.entry_name,
                                                snake_to_camel(field.ident)),
                             field_type |-> field.ty])])
          [] outcome.outcome = "Ignore" ->
                V1FieldOutcomes(outcomes, i + 1, field, acc)

\* one turn of `for attribute in field.attrs`
V1FieldAttr(attr) ==
    /\ ver = "v1"
    /\ gpc = "fields"
    /\ fields # <<>>
    /\ Affordable(attr)
    /\ fields' = WithAttr(attr)
    /\ LET m == parse_meta(attr)
           outcomes == IF m.ok THEN handle_field_attribute(m.val) ELSE m
       IN IF outcomes.ok
          THEN LET acc == V1FieldOutcomes(outcomes.val, 1, fields[Len(fields)],
                            [get_impls |-> requested_get_impls,
                             entries |-> requested_generated_entries])
               IN /\ requested_get_impls' = acc.get_impls
                  /\ requested_generated_entries' = acc.entries
                  /\ UNCHANGED <<gpc, output, error>>
          ELSE /\ Fail(outcomes.err)
               /\ UNCHANGED <<requested_get_impls, requested_generated_entries>>
    /\ UNCHANGED <<ver, struct_attrs, cfg>>
    /\ GenQuiet

V1GetImpl(request) ==
    [item |-> "impl Get",
     marker |-> request.marker_path,
     for |-> StructName,
     field |-> request.field_name,
     receiver_type |-> request.receiver.annotation,
     receiver |-> [expr |-> request.receiver.receiver_fn, call |-> TRUE]]

V1EntryEnum(request) ==
    [item |-> "enum", name |-> request.marker_name,
     doc_field |-> request.field_name, doc_struct |-> StructName]

V1EntryImpl(request) ==
    [item |-> "impl Entry",
     for |-> MkPath(FALSE, <<request.marker_name>>),
     data |-> request.field_type,
     name |-> request.field_name]

RECURSIVE V1GeneratedEntries(_, _)
\* the token streams of the generated entries, inside the module
V1GeneratedEntries(requests, i) ==
    IF i > Len(requests) THEN <<>>
    ELSE << V1EntryEnum(requests[i]), V1EntryImpl(requests[i]) >>
            \o V1GeneratedEntries(requests, i + 1)

\* the two loops over the requests and the final quote!
V1Emit ==
    /\ ver = "v1"
    /\ gpc = "fields"
    /\ output' = Some([module_attrs |-> <<>>,
                       module_vis |-> "Inherited",
                       module |-> cfg.entry_module[1],
                       module_items |-> << [item |-> "use super::*"] >>
                            \o V1GeneratedEntries(requested_generated_entries, 1),
                       items |-> [i \in 1..Len(requested_get_impls) |->
                                    V1GetImpl(requested_get_impls[i])]])
    /\ gpc' = "done"
    /\ UNCHANGED <<ver, struct_attrs, fields, cfg, requested_get_impls,
                   requested_generated_entries, error>>
    /\ GenQuiet

GenNext ==
    \/ \E attr \in V1StructAttrs : V1StructAttr(attr)
    \/ V1ResolveDefaults
    \/ \E attr \in V1FieldAttrs : V1FieldAttr(attr)
    \/ V1Emit
    \/ \E attr \in V2StructAttrs : V2StructAttr(attr)
    \/ V2ResolveDefaults
    \/ \E attr \in V2FieldAttrs : V2FieldAttr(attr)
    \/ V2Emit
    \/ \E field \in FieldDecls : FieldBegin(field)

GenSpec == GenInit /\ [][GenNext]_vars

(***************************************************************************)
(* snake_to_camel as a function of its own                                 *)
(***************************************************************************)
\* identifiers of at most MaxLen characters
MaxLen == 3
\* snake_to_camel is applied at most MaxApply times in a row
MaxApply == 2

IdentChars == {"a", "b", "A", "_", "1"}
Digits == {"1"}
Spans == {"s1", "s2"}

\* what the lexer accepts as the name of a field: a letter or an underscore,
\* then letters, digits and underscores, and not the lone underscore
IsFieldName(text) ==
    /\ text # <<>>
    /\ text[1] \notin Digits
    /\ text # <<"_">>

FieldNames == { t \in SeqsUpTo(IdentChars, MaxLen) : IsFieldName(t) }

\* Ident::new(string, span): panics unless the string is an identifier
Ident_new(string, span) ==
    IF string = <<>> THEN Err("Ident is not allowed to be empty; use Option<Ident>")
    ELSE IF string[1] \in Digits THEN Err("Ident cannot be a number; use Literal instead")
    ELSE Ok(MkIdent(string, span))

CamelInit ==
    /\ HandleOff
    /\ GenOff
    /\ AdapterOff
    /\ EqOff
    /\ TableOff
    /\ arg_ident \in { MkIdent(t, sp) : t \in FieldNames, sp \in Spans }
    /\ converted = <<>>

\* one call of snake_to_camel: on the field's identifier first, then on the
\* identifier the call before returned
SnakeToCamel ==
    /\ arg_ident.text # <<>>
    /\ Len(converted) < MaxApply
    /\ converted # <<>> => converted[Len(converted)].ok
    /\ LET ident == IF converted = <<>> THEN arg_ident
                    ELSE converted[Len(converted)].val
       IN converted' = Append(converted,
                            Ident_new(snake_to_camel(ident.text), ident.span))
    /\ UNCHANGED <<arg_ident, hvars, gvars, avars, ovars>>

CamelNext == SnakeToCamel

CamelSpec == CamelInit /\ [][CamelNext]_vars

(***************************************************************************)
(* receiver.rs: the Receiver implementations for RefCell, Mutex and RwLock *)
(***************************************************************************)
OwnedAdapters == {"RefCell", "Mutex", "RwLock"}
SharedAdapters == {"&RefCell", "&Mutex", "&RwLock"}
LockAdapters == {"Mutex", "&Mutex", "RwLock", "&RwLock"}
Adapters == OwnedAdapters \cup SharedAdapters

\* the Handle operations that notify: each ends in
\* self.receiver.receive(self.target)
NotifyingOps == {"set", "modify_with", "drop"}

\* a handle whose receiver is one of the adapters; a lock that is moved into
\* the handle, or shared with it, may have been poisoned before
AdapterInit ==
    /\ target \in Vals
    /\ received = <<>>
    /\ scopes = <<>>
    /\ pc = "idle"
    /\ panicking = FALSE
    /\ last = NoOp
    /\ GenOff
    /\ CamelOff
    /\ EqOff
    /\ TableOff
    /\ adapter \in Adapters
    /\ holder = "none"
    /\ poisoned \in (IF adapter \in LockAdapters THEN BOOLEAN ELSE {FALSE})
    /\ failure = "none"

\* another thread locks the shared Mutex / RwLock
OtherAcquire ==
    /\ adapter \in {"&Mutex", "&RwLock"}
    /\ holder = "none"
    /\ holder' = "other"
    /\ UNCHANGED <<adapter, poisoned, failure, hvars, gvars, cvars, ovars>>

\* the other thread drops its guard, normally or while it panics
OtherRelease(panics) ==
    /\ holder = "other"
    /\ holder' = "none"
    /\ poisoned' = (poisoned \/ panics)
    /\ UNCHANGED <<adapter, failure, hvars, gvars, cvars, ovars>>

\* the thread that owns the handle borrows the shared cell or locks the
\* shared lock and keeps the guard
SelfAcquire ==
    /\ adapter \in SharedAdapters
    /\ holder = "none"
    /\ pc = "idle" /\ ~panicking
    /\ holder' = "self"
    /\ UNCHANGED <<adapter, poisoned, failure, hvars, gvars, cvars, ovars>>

\* ... and drops the guard
SelfRelease ==
    /\ holder = "self"
    /\ pc = "idle" /\ ~panicking
    /\ holder' = "none"
    /\ UNCHANGED <<adapter, poisoned, failure, hvars, gvars, cvars, ovars>>

\* Handle::set / modify_with / the drop of a ModificationScope up to the
\* call of self.receiver.receive(self.target)
Mutate(op, v) ==
    /\ adapter \in Adapters
    /\ pc = "idle" /\ ~panicking
    /\ Len(received) < MaxNotes
    /\ target' = v
    /\ pc' = "receive"
    /\ last' = [op |-> op, pre |-> target, expect |-> v, n0 |-> Len(received),
                status |-> "running", changed |-> v # target, kind |-> "none"]
    /\ UNCHANGED <<received, scopes, panicking, gvars, cvars, avars, ovars>>

\* a receive() that recovers the guard from the error and goes on
ReceivePanics_Recovers(why) ==
    /\ pc' = "forward"
    /\ holder' = "adapter"
    /\ UNCHANGED <<panicking, failure, last>>

\* receive() panics: the guard, if one was taken, is dropped by the unwinding
ReceivePanics(why) ==
    /\ pc' = "panicked"
    /\ panicking' = TRUE
    /\ failure' = why
    /\ last' = [last EXCEPT !.status = "panicked"]
    /\ holder' = holder

\* receive() got the inner receiver: get_mut() / borrow_mut() / lock() /
\* write() returned
ReceiveHolds ==
    /\ pc' = "forward"
    /\ holder' = "adapter"
    /\ UNCHANGED <<panicking, failure, last>>

\* the first half of receive(): reaching the inner receiver
AdapterAcquire ==
    /\ pc = "receive"
    /\ CASE adapter = "RefCell" -> ReceiveHolds
         [] adapter = "&RefCell" ->
                IF holder = "none" THEN ReceiveHolds
                ELSE ReceivePanics("already borrowed")
         [] adapter \in {"Mutex", "RwLock"} ->
                IF poisoned THEN ReceivePanics("poisoned lock")
                ELSE ReceiveHolds
         [] adapter \in {"&Mutex", "&RwLock"} ->
                /\ holder # "other"
                /\ IF holder = "self"
                   THEN \/ ReceivePanics("lock held by the current thread")
                        \/ /\ pc' = "deadlocked"
                           /\ UNCHANGED <<holder, panicking, failure, last>>
                   ELSE IF poisoned THEN ReceivePanics("poisoned lock")
                   ELSE ReceiveHolds
    /\ UNCHANGED <<target, received, scopes, adapter, poisoned, gvars, cvars, ovars>>

\* the inner receiver's receive(new_value)
AdapterForward ==
    /\ pc = "forward"
    /\ received' = Receive(received, target)
    /\ pc' = "release"
    /\ UNCHANGED <<target, scopes, panicking, last, gvars, cvars, avars, ovars>>

\* the end of the statement: the guard is dropped, receive() and the Handle
\* operation return
AdapterRelease ==
    /\ pc = "release"
    /\ holder' = "none"
    /\ pc' = "idle"
    /\ last' = [last EXCEPT !.status = "returned"]
    /\ UNCHANGED <<target, received, scopes, panicking, adapter, poisoned,
                   failure, gvars, cvars, ovars>>

AdapterNext ==
    \/ OtherAcquire
    \/ \E panics \in BOOLEAN : OtherRelease(panics)
    \/ SelfAcquire
    \/ SelfRelease
    \/ \E op \in NotifyingOps, v \in Vals : Mutate(op, v)
    \/ AdapterAcquire
    \/ AdapterForward
    \/ AdapterRelease

AdapterSpec == AdapterInit /\ [][AdapterNext]_vars

(***************************************************************************)
(* Handle / Receiver runtime: properties                                   *)
(***************************************************************************)
Notified == Len(received) = last.n0 + 1 /\ received[Len(received)] = target

\* C1: when Handle::set(V2) has returned, the storage holds V2 and the
\* receiver was notified exactly once by the call, with V2, before the return.
C1_SetStoresAndNotifies ==
    (last.op = "set" /\ last.status = "returned") =>
        /\ pc = "idle"
        /\ target = last.expect
        /\ Len(received) = last.n0 + 1
        /\ received[Len(received)] = last.expect

C1_Witness ==
    /\ last.op = "set" /\ last.status = "returned"
    /\ last.pre # last.expect
    /\ last.n0 > 0

\* C2: the drop of a ModificationScope, on every exit path (normal end,
\* early return, unwinding), notifies the receiver exactly once with the
\* value in storage at that moment.
C2_ScopeDropNotifies ==
    (last.op = "drop" /\ last.kind \in {"normal", "return", "unwind"}) =>
        /\ Len(received) = last.n0 + 1
        /\ received[Len(received)] = target

C2_Witness ==
    /\ last.op = "drop" /\ last.kind = "unwind"
    /\ target # last.pre

\* C3: once a modify_with call or a scope is over, whether it returned or
\* panicked, exactly one notification was fired by it and it carries the
\* value in storage.
C3_NotifiedEvenOnPanic ==
    (last.op \in {"modify_with", "drop"}
        /\ last.status \in {"returned", "panicked"}) => Notified

\* C4: a silent operation leaves the new value in storage and delivers no
\* notification.
C4_SilentVariants ==
    (last.op \in {"set_silently", "modify_silently", "modify_silently_with"})
        => /\ target = last.expect
           /\ Len(received) = last.n0

C4_Witness ==
    /\ last.op = "set_silently"
    /\ target # last.pre
    /\ received # <<>>

\* C5: every notification made by set, modify_with or a scope's drop is
\* preceded, within that operation, by a change of the stored value.
C5_NotifiedOnlyOnChange ==
    (last.op \in {"set", "modify_with", "drop"} /\ last.status = "returned")
        => last.changed


\* a step that notifies while a scope is open is the drop of a scope
QuietWhileOpen ==
    (scopes # <<>> /\ received' # received) => Len(scopes') < Len(scopes)

\* C25: between Handle::modify and the drop of the scope the receiver is
\* not notified, whatever is done through the scope (set, modify_with and
\* nested scopes reached through AsMut<Handle> included): only the drop of
\* a scope notifies while a scope is open.
C25_QuietWhileScopeOpen == [][QuietWhileOpen]_vars

(***************************************************************************)
(* The handle used through its notifying operations only                   *)
(***************************************************************************)
SyncNext ==
    \/ \E v \in Vals : SetWrite(v)
    \/ SetReceive
    \/ Modify
    \/ \E v \in Vals : ScopeWrite(v)
    \/ ScopePanic
    \/ \E kind \in {"normal", "return", "unwind"} : ScopeDrop(kind)
    \/ Catch
    \/ \E f \in Callbacks : ModifyWithCall(f, FALSE)
    \/ ModifyWithReceive

SyncSpec == Init /\ [][SyncNext]_vars

\* with no operation running and no scope open, the receiver's last value is
\* the stored one
InSync ==
    (scopes = <<>> /\ pc = "idle" /\ received # <<>>)
        => received[Len(received)] = target

\* the step completes an operation: set or modify_with returns, or a scope
\* is dropped
Completes ==
    \/ /\ pc # "idle"
       /\ pc' = "idle"
       /\ last'.op \in {"set", "modify_with"}
       /\ last'.status = "returned"
    \/ Len(scopes') < Len(scopes)

\* each completed operation adds one notification and nothing else adds any
CountsInStep ==
    Len(received') = Len(received) + (IF Completes THEN 1 ELSE 0)

\* C26: when only set, modify_with with a returning closure and scopes that
\* are opened and dropped are used, there are as many notifications as
\* completed operations, and whenever no scope is open and no call is
\* running the last value the receiver got is the stored value.
C26_ReceiverInSync == []InSync /\ [][CountsInStep]_vars

C26_Witness ==
    /\ scopes = <<>>
    /\ pc = "idle"
    /\ last.op = "drop"
    /\ Len(received) = MaxNotes
    /\ received[Len(received)] = target
    /\ received[1] # target


(***************************************************************************)
(* The generator: properties                                               *)
(***************************************************************************)
Done == gpc = "done" /\ IsSome(output)
\* the marker types and the accessor implementations of the output
MarkerTypes(out) == SelectSeq(out.module_items, LAMBDA x : x.item = "enum")
Accessors(out) == SelectSeq(out.items, LAMBDA x : x.item = "impl Get")
AccessorsOf(out, ident) ==
    SelectSeq(out.items, LAMBDA x : x.item = "impl Get" /\ x.field = ident)
IsSnec(attr) == attr.ns = "snec"
SnecAttrs(field) == SelectSeq(field.attrs, IsSnec)

\* the capitalized-concatenated-words form of the field names of FieldDecls
CamelOf(ident) ==
    CASE ident = <<"a">> -> <<"A">>
      [] ident = <<"a", "_", "b">> -> <<"A", "B">>
      [] ident = <<"a", "_", "_", "b">> -> <<"A", "B">>

AllBare == \A i \in 1..Len(fields) : fields[i].attrs = <<BareAttr>>

\* C6: when each of the N fields bears one bare #[snec], the output has N
\* marker types and N accessors, and the accessor of each field is bound to
\* <entry module>::<case-converted field name>.
C6_BareFields ==
    (Done /\ AllBare) =>
        LET out == output[1] IN
        /\ Len(MarkerTypes(out)) = Len(fields)
        /\ Len(Accessors(out)) = Len(fields)
        /\ \A i \in 1..Len(fields) :
                /\ Accessors(out)[i].field = fields[i].ident
                /\ Accessors(out)[i].marker =
                        MkPath(FALSE, <<out.module, CamelOf(fields[i].ident)>>)
                /\ MarkerTypes(out)[i].name = CamelOf(fields[i].ident)

C6_Witness ==
    /\ Done /\ AllBare /\ Len(fields) = 2
    /\ ver = "v1"
    /\ \E i \in 1..2 : fields[i].ident = <<"a", "_", "b">>

\* the marker M of a field whose commands are use_entry(M) and at most a
\* receiver override, None for any other field
UseEntryOnly(field) ==
    IF Len(SnecAttrs(field)) # 1 \/ SnecAttrs(field)[1].form # "List"
    THEN None
    ELSE LET cs == SnecAttrs(field)[1].commands IN
        IF ver = "v1"
        THEN IF /\ Len(cs) = 1
                /\ cs[1].nested = "Meta" /\ cs[1].meta = "List"
                /\ cs[1].name = "use_entry"
                /\ Len(cs[1].args) \in {1, 2}
                /\ cs[1].args[1].nested = "Meta" /\ cs[1].args[1].meta = "Path"
                /\ Len(cs[1].args) = 2 => cs[1].args[2].nested = "Lit"
             THEN Some(cs[1].args[1].path) ELSE None
        ELSE IF \E j \in 1..Len(cs) :
                    /\ cs[j].cmd = "UseEntry"
                    /\ \A k \in 1..Len(cs) : k # j => cs[k].cmd = "Receiver"
             THEN Some(cs[CHOOSE j \in 1..Len(cs) : cs[j].cmd = "UseEntry"].path)
             ELSE None

\* C7: a field whose commands are use_entry(M), with or without a receiver
\* override, queues no marker-generation request, gets no marker type and
\* gets exactly one accessor, bound to M as written.
C7_UseEntryVerbatim ==
    \A i \in 1..Len(fields) :
        (IsNone(error) /\ IsSome(UseEntryOnly(fields[i]))) =>
            /\ \A k \in 1..Len(requested_generated_entries) :
                    requested_generated_entries[k].field_name # fields[i].ident
            /\ Done =>
                LET out == output[1] IN
                /\ \A k \in 1..Len(MarkerTypes(out)) :
                        MarkerTypes(out)[k].doc_field # fields[i].ident
                /\ Len(AccessorsOf(out, fields[i].ident)) = 1
                /\ AccessorsOf(out, fields[i].ident)[1].marker =
                        UseEntryOnly(fields[i])[1]

C7_Witness ==
    /\ Done /\ ver = "v2" /\ Len(fields) = 2
    /\ IsSome(UseEntryOnly(fields[1]))
    /\ Len(SnecAttrs(fields[1])[1].commands) = 2
    /\ fields[2].attrs = <<BareAttr>>

\* the receiver, as <<type, constructor expression>>, that a struct without
\* a receiver command gives to its accessors
NoOpReceiver ==
    IF ver = "v1" THEN <<"::snec::EmptyReceiver", "::snec::EmptyReceiver::new">>
    ELSE <<"::snec::EmptyReceiver", "::snec::EmptyReceiver">>

RECURSIVE LastReceiverCmd(_, _, _)
\* the receiver of the last receiver command of a command list, else dflt
LastReceiverCmd(cs, i, dflt) ==
    IF i > Len(cs) THEN dflt
    ELSE IF ver = "v1"
    THEN LastReceiverCmd(cs, i + 1,
            IF cs[i].meta = "NameValue" /\ cs[i].name = "receiver"
            THEN <<cs[i].lit.receiver.annotation, cs[i].lit.receiver.receiver_fn>>
            ELSE dflt)
    ELSE LastReceiverCmd(cs, i + 1,
            IF cs[i].cmd = "Receiver" THEN <<cs[i].ty, cs[i].expression>>
            ELSE dflt)

RECURSIVE StructReceiver(_, _)
\* the struct-level default receiver: the struct's receiver command if
\* there is one, else the no-op receiver
StructReceiver(attrs, i) ==
    IF i = 0 THEN NoOpReceiver
    ELSE IF IsSnec(attrs[i]) /\ attrs[i].form = "List"
            /\ LastReceiverCmd(attrs[i].commands, 1, <<>>) # <<>>
    THEN LastReceiverCmd(attrs[i].commands, 1, <<>>)
    ELSE StructReceiver(attrs, i - 1)

DefaultReceiver == StructReceiver(struct_attrs, Len(struct_attrs))

RECURSIVE V1ItemReceivers(_, _)
\* v1: one receiver per entry(...) / use_entry(...) command: its literal
\* argument if it has one
V1ItemReceivers(cs, i) ==
    IF i > Len(cs) THEN <<>>
    ELSE LET lits == SelectSeq(cs[i].args, LAMBDA x : x.nested = "Lit") IN
         << IF Len(lits) = 0 THEN DefaultReceiver
            ELSE <<lits[1].lit.receiver.annotation,
                   lits[1].lit.receiver.receiver_fn>> >>
         \o V1ItemReceivers(cs, i + 1)

\* the receivers of the accessors that one attribute of a field asks for
AttrReceivers(attr) ==
    IF ~IsSnec(attr) THEN <<>>
    ELSE IF attr.form = "Path" THEN <<DefaultReceiver>>
    ELSE IF ver = "v1" THEN V1ItemReceivers(attr.commands, 1)
    ELSE IF \E j \in 1..Len(attr.commands) :
                attr.commands[j].cmd \in {"Entry", "UseEntry"}
         THEN << LastReceiverCmd(attr.commands, 1, DefaultReceiver) >>
         ELSE <<>>

RECURSIVE AttrsReceivers(_, _)
AttrsReceivers(attrs, i) ==
    IF i > Len(attrs) THEN <<>>
    ELSE AttrReceivers(attrs[i]) \o AttrsReceivers(attrs, i + 1)

RECURSIVE ExpectedReceivers(_)
\* field by field, the receivers of the accessors the input asks for
ExpectedReceivers(i) ==
    IF i > Len(fields) THEN <<>>
    ELSE AttrsReceivers(fields[i].attrs, 1) \o ExpectedReceivers(i + 1)

\* C8: every accessor uses the receiver override given with its own
\* command (expression and type) and, without one, the struct-level default
\* (the struct's receiver command, else the no-op receiver); an override on
\* one field leaves the receivers of the other fields alone.
C8_ReceiverResolution ==
    Done =>
        LET acc == Accessors(output[1]) IN
        [i \in 1..Len(acc) |-> <<acc[i].receiver_type, acc[i].receiver.expr>>]
            = ExpectedReceivers(1)

C8_Witness ==
    /\ Done /\ ver = "v1" /\ Len(fields) = 2
    /\ DefaultReceiver = <<"R0", "R0::new">>
    /\ LET acc == Accessors(output[1]) IN
        /\ Len(acc) = 2
        /\ acc[1].field = fields[1].ident /\ acc[1].receiver_type = "R1"
        /\ acc[2].field = fields[2].ident /\ acc[2].receiver_type = "R0"

RECURSIVE CountCmds(_, _, _)
\* how many commands of the struct's attributes set the option
CountCmds(attrs, i, option) ==
    IF i > Len(attrs) THEN 0
    ELSE (IF IsSnec(attrs[i]) /\ attrs[i].form = "List"
          THEN Len(SelectSeq(attrs[i].commands,
                    LAMBDA c : IF ver = "v1"
                               THEN c.meta = "NameValue" /\ c.name = option
                               ELSE c.cmd = option))
          ELSE 0) + CountCmds(attrs, i + 1, option)

SetTwice ==
    IF ver = "v1"
    THEN \/ CountCmds(struct_attrs, 1, "receiver") >= 2
         \/ CountCmds(struct_attrs, 1, "entry_module") >= 2
    ELSE \/ CountCmds(struct_attrs, 1, "Receiver") >= 2
         \/ CountCmds(struct_attrs, 1, "EntryModule") >= 2

\* C9: once the struct's attributes set the default receiver or the entry
\* module name twice, the generation has failed and there is no output.
C9_DuplicateOptionFails ==
    (gpc # "off" /\ SetTwice) => (gpc = "err" /\ IsSome(error) /\ IsNone(output))

\* C10: the marker paths of the accessors of one derivation are pairwise
\* distinct.
C10_DistinctAccessors ==
    Done =>
        LET acc == Accessors(output[1]) IN
        \A i, j \in 1..Len(acc) : i # j => acc[i].marker # acc[j].marker

\* a command in the wrong place: entry / use_entry among the struct's
\* commands, or an entry-module command among a field's commands
StructScopeError ==
    \E i \in 1..Len(struct_attrs) :
        /\ IsSnec(struct_attrs[i]) /\ struct_attrs[i].form = "List"
        /\ \E j \in 1..Len(struct_attrs[i].commands) :
            LET c == struct_attrs[i].commands[j] IN
            IF ver = "v1"
            THEN c.nested = "Meta" /\ c.meta = "List"
                    /\ c.name \in {"entry", "use_entry"}
            ELSE c.cmd \in {"Entry", "UseEntry"}

FieldScopeError ==
    \E f \in 1..Len(fields) : \E i \in 1..Len(fields[f].attrs) :
        /\ IsSnec(fields[f].attrs[i]) /\ fields[f].attrs[i].form = "List"
        /\ \E j \in 1..Len(fields[f].attrs[i].commands) :
            LET c == fields[f].attrs[i].commands[j] IN
            IF ver = "v1"
            THEN c.nested = "Meta" /\ c.meta = "NameValue"
                    /\ c.name = "entry_module"
            ELSE c.cmd \in {"EntryModule", "EntryModuleVisibility",
                            "EntryModuleAttributes"}

Failed == gpc = "err" /\ IsSome(error) /\ IsNone(output)

\* C11: once entry or use_entry has been read among the struct's commands,
\* or an entry-module command among a field's commands, the generation has
\* failed with an error and there is no output, whatever was read before.
C11_ScopeErrorsAbort ==
    (StructScopeError \/ FieldScopeError) => Failed

\* a second field carries the offending command after a first field has
\* queued its requests
C11_Witness ==
    /\ FieldScopeError /\ Failed /\ ver = "v2"
    /\ Len(fields) = 2
    /\ requested_get_impls # <<>>
    /\ requested_generated_entries # <<>>

\* a receiver command stands, as a command of its own, among the commands
\* of a field
FieldReceiverCmd ==
    \E f \in 1..Len(fields) : \E i \in 1..Len(fields[f].attrs) :
        /\ IsSnec(fields[f].attrs[i]) /\ fields[f].attrs[i].form = "List"
        /\ \E j \in 1..Len(fields[f].attrs[i].commands) :
            LET c == fields[f].attrs[i].commands[j] IN
            IF ver = "v1"
            THEN c.nested = "Meta" /\ c.meta = "NameValue" /\ c.name = "receiver"
            ELSE c.cmd = "Receiver"

\* C12: once a receiver command has been read among a field's commands, the
\* generation has failed with an error and there is no output.
C12_FieldReceiverRejected ==
    FieldReceiverCmd => Failed

\* the position of a field in the struct
FieldIndex(ident) == CHOOSE i \in 1..Len(fields) : fields[i].ident = ident

\* the items of the entry module, the use declaration apart
ModuleBody(out) == SelectSeq(out.module_items, LAMBDA x : x.item # "use super::*")

\* C17: the output is one entry module that holds, for every queued
\* marker-generation request in queue order, the marker type followed by its
\* Entry binding, and after the module one accessor implementation per
\* accessor binding in field declaration order; no Entry binding stands
\* outside the module or after an accessor.
C17_OutputShape ==
    Done =>
        LET out == output[1]
            body == ModuleBody(out)
            reqs == requested_generated_entries
        IN
        /\ Len(body) = 2 * Len(reqs)
        /\ \A k \in 1..Len(reqs) :
                /\ body[2 * k - 1].item = "enum"
                /\ body[2 * k - 1].name = reqs[k].marker_name
                /\ body[2 * k].item = "impl Entry"
                /\ body[2 * k].for.segments[Len(body[2 * k].for.segments)]
                        = reqs[k].marker_name
                /\ body[2 * k].name = reqs[k].field_name
        /\ \A i \in 1..Len(out.items) : out.items[i].item = "impl Get"
        /\ \A i, j \in 1..Len(out.items) :
                i < j => FieldIndex(out.items[i].field)
                            <= FieldIndex(out.items[j].field)
        /\ \A f \in 1..Len(fields) :
                (\E k \in 1..Len(requested_get_impls) :
                    requested_get_impls[k].field_name = fields[f].ident)
                => AccessorsOf(out, fields[f].ident) # <<>>

RECURSIVE StructCmdsFrom(_)
\* mod.rs: the commands of the struct's annotations, in the order written
StructCmdsFrom(i) ==
    IF i > Len(struct_attrs) THEN <<>>
    ELSE (IF IsSnec(struct_attrs[i]) /\ struct_attrs[i].form = "List"
          THEN struct_attrs[i].commands ELSE <<>>) \o StructCmdsFrom(i + 1)

\* the value of the last command of one kind, None without such a command
LastOf(cmds, kind) ==
    LET cs == SelectSeq(cmds, LAMBDA c : c.cmd = kind) IN
    IF cs = <<>> THEN None ELSE Some(cs[Len(cs)])

RECURSIVE AllModuleAttributes(_, _)
\* the annotations of all entry_module_attributes commands
AllModuleAttributes(cmds, i) ==
    IF i > Len(cmds) THEN <<>>
    ELSE (IF cmds[i].cmd = "EntryModuleAttributes" THEN cmds[i].attrs ELSE <<>>)
         \o AllModuleAttributes(cmds, i + 1)

\* no struct-level option is set twice
EachOptionOnce ==
    \A kind \in {"Receiver", "EntryModule", "EntryModuleVisibility"} :
        Len(SelectSeq(StructCmdsFrom(1), LAMBDA c : c.cmd = kind)) <= 1

\* C18: in drv_config_table/mod.rs, a struct without the struct-level
\* command gets the entry module `entries`, private (inherited) visibility,
\* no extra annotations and, for every accessor without an override of its
\* own, ::snec::EmptyReceiver as receiver type and as receiver constructor;
\* a struct-level command replaces its own default and no other (each
\* option being set at most once).
C18_StructDefaults ==
    (Done /\ ver = "v2" /\ EachOptionOnce) =>
        LET out == output[1]
            cmds == StructCmdsFrom(1)
            acc == Accessors(out)
        IN
        /\ out.module = IF IsNone(LastOf(cmds, "EntryModule"))
                        THEN <<"e", "n", "t", "r", "i", "e", "s">>
                        ELSE LastOf(cmds, "EntryModule")[1].ident
        /\ out.module_vis = IF IsNone(LastOf(cmds, "EntryModuleVisibility"))
                            THEN "Inherited"
                            ELSE LastOf(cmds, "EntryModuleVisibility")[1].vis
        /\ out.module_attrs = AllModuleAttributes(cmds, 1)
        /\ IsNone(LastOf(cmds, "Receiver")) =>
                DefaultReceiver = <<"::snec::EmptyReceiver", "::snec::EmptyReceiver">>
        /\ [i \in 1..Len(acc) |-> <<acc[i].receiver_type, acc[i].receiver.expr>>]
                = ExpectedReceivers(1)

\* the struct names its entry module and nothing else: the module is
\* renamed, its visibility and the accessor's receiver are the defaults
C18_Witness ==
    /\ Done /\ ver = "v2"
    /\ Len(StructCmdsFrom(1)) = 1
    /\ StructCmdsFrom(1)[1].cmd = "EntryModule"
    /\ output[1].module = <<"m">>
    /\ output[1].module_vis = "Inherited"
    /\ Accessors(output[1]) # <<>>
    /\ Accessors(output[1])[1].receiver_type = "::snec::EmptyReceiver"
    /\ Accessors(output[1])[1].receiver.expr = "::snec::EmptyReceiver"

\* C19: at most one accessor implementation is emitted for a field,
\* whatever annotations and commands the field carries.
C19_OneAccessorPerField ==
    Done =>
        \A f \in 1..Len(fields) :
            Len(AccessorsOf(output[1], fields[f].ident)) <= 1

\* mod.rs: the last entry / use_entry command of a field whose one
\* annotation holds both an entry and a use_entry command; None for any
\* other field
LastOfBoth(field) ==
    IF Len(SnecAttrs(field)) # 1 \/ SnecAttrs(field)[1].form # "List"
    THEN None
    ELSE LET cs == SelectSeq(SnecAttrs(field)[1].commands,
                        LAMBDA c : c.cmd \in {"Entry", "UseEntry"})
         IN IF /\ \E j \in 1..Len(cs) : cs[j].cmd = "Entry"
               /\ \E j \in 1..Len(cs) : cs[j].cmd = "UseEntry"
            THEN Some(cs[Len(cs)]) ELSE None

\* C20: in drv_config_table/mod.rs, when the command list of a field holds
\* both entry and use_entry(M), the accessor of the field is bound to the
\* marker of the later of the two (M for use_entry, <entry module>::<name
\* given or case-converted field name> for entry), and the marker type that
\* entry asks for is emitted.
C20_LastOfEntryAndUseEntry ==
    (Done /\ ver = "v2") =>
        \A f \in 1..Len(fields) :
            IsSome(LastOfBoth(fields[f])) =>
                LET out == output[1]
                    c == LastOfBoth(fields[f])[1]
                    acc == AccessorsOf(out, fields[f].ident)
                IN
                /\ acc # <<>>
                /\ \A k \in 1..Len(acc) :
                    acc[k].marker =
                        IF c.cmd = "UseEntry" THEN c.path
                        ELSE MkPath(FALSE, <<out.module,
                                UnwrapOr(c.name, CamelOf(fields[f].ident))>>)
                /\ \E k \in 1..Len(MarkerTypes(out)) :
                        MarkerTypes(out)[k].doc_field = fields[f].ident

\* an annotation of this crate that is malformed: in mod.rs one that does
\* not parse; in drv_config_table.rs #[snec = ...], use_entry without
\* arguments, or a receiver whose literal is not a string
IsMalformed(attr) ==
    /\ IsSnec(attr)
    /\ IF ver = "v2" THEN attr.form = "Malformed"
       ELSE \/ attr.form = "NameValue"
            \/ /\ attr.form = "List"
               /\ \E j \in 1..Len(attr.commands) :
                    \/ attr.commands[j] = NMList("use_entry", <<>>)
                    \/ attr.commands[j] = NMNameValue("receiver", LitInt)

MalformedRead ==
    \/ \E i \in 1..Len(struct_attrs) : IsMalformed(struct_attrs[i])
    \/ \E f \in 1..Len(fields) : \E i \in 1..Len(fields[f].attrs) :
            IsMalformed(fields[f].attrs[i])

\* C21: once a malformed annotation of this crate has been read, on the
\* struct or on a field, the derivation has failed with an error and there
\* is no output; it is never passed over like a foreign annotation.
C21_SyntaxErrorsFatal ==
    MalformedRead => Failed

\* the Entry bindings of the output, inside and outside the entry module
EntryImpls(out) ==
    SelectSeq(out.module_items \o out.items, LAMBDA x : x.item = "impl Entry")
\* the type the struct declares the field with
DeclaredType(ident) == (CHOOSE f \in FieldDecls : f.ident = ident).ty
LastSegment(path) == path.segments[Len(path.segments)]

\* C24: the i-th queued marker request gives the i-th marker type and the
\* i-th Entry binding and there are no others; the binding is for the
\* request's marker, its Data is the declared type of the field and its NAME
\* is the field's name, whatever the marker is called.
C24_OneMarkerOneBinding ==
    Done =>
        LET out == output[1]
            n == Len(requested_generated_entries)
        IN
        /\ Len(MarkerTypes(out)) = n
        /\ Len(EntryImpls(out)) = n
        /\ \A i \in 1..n :
            LET r == requested_generated_entries[i]
                b == EntryImpls(out)[i]
            IN
            /\ \E j \in 1..Len(fields) : fields[j].ident = r.field_name
            /\ MarkerTypes(out)[i].name = r.marker_name
            /\ LastSegment(b.for) = r.marker_name
            /\ b.data = DeclaredType(r.field_name)
            /\ b.name = r.field_name

C24_Witness ==
    /\ Done
    /\ \E i \in 1..Len(requested_generated_entries) :
        LET r == requested_generated_entries[i]
        IN /\ r.marker_name # snake_to_camel(r.field_name)
           /\ r.marker_name # r.field_name
           /\ EntryImpls(output[1])[i].name = r.field_name

\* the accessor is bound to a marker type that the output's module declares
BoundToEmitted(out, a) ==
    \E i \in 1..Len(MarkerTypes(out)) :
        a.marker = MkPath(FALSE, <<out.module, MarkerTypes(out)[i].name>>)

\* C27: every accessor of an accepted input is bound either to a path that
\* a use_entry command gave or to <entry module>::<N> with a marker type N
\* that the same output declares in the entry module.
C27_NoDanglingMarker ==
    Done =>
        \A i \in 1..Len(Accessors(output[1])) :
            LET a == Accessors(output[1])[i] IN
            a.marker \notin UsePaths => BoundToEmitted(output[1], a)

C27_Witness ==
    /\ Done
    /\ Len(Accessors(output[1])) >= 2
    /\ \E i \in 1..Len(Accessors(output[1])) :
        LET a == Accessors(output[1])[i] IN
        /\ a.marker \notin UsePaths
        /\ LastSegment(a.marker) \in MarkerNames
        /\ BoundToEmitted(output[1], a)
    /\ \E i \in 1..Len(Accessors(output[1])) :
        Accessors(output[1])[i].marker \in UsePaths

DistinctFieldNames ==
    \A i, j \in 1..Len(fields) : i # j => fields[i].ident # fields[j].ident

\* C28: when the fields have pairwise distinct names and each bears one bare
\* #[snec], the marker types of the output have pairwise distinct names.
C28_MarkerNamesUnique ==
    (Done /\ AllBare /\ DistinctFieldNames) =>
        \A i, j \in 1..Len(MarkerTypes(output[1])) :
            i # j => MarkerTypes(output[1])[i].name # MarkerTypes(output[1])[j].name

(***************************************************************************)
(* snake_to_camel: properties                                              *)
(***************************************************************************)
\* the upper-case form of a character of IdentChars
UpperCaseOf(x) ==
    CASE x = "a" -> "A"
      [] x = "b" -> "B"
      [] x \in {"A", "_", "1"} -> x

\* the positions of the characters that are not underscores
KeptPositions(text) == { i \in 1..Len(text) : text[i] # "_" }

\* the text without its underscores, the first character and every
\* character that follows an underscore in upper case
CapitalizedWords(text) ==
    [k \in 1..Cardinality(KeptPositions(text)) |->
        LET i == CHOOSE p \in KeptPositions(text) :
                    Cardinality({ q \in KeptPositions(text) : q <= p }) = k
        IN IF i = 1 \/ text[i - 1] = "_" THEN UpperCaseOf(text[i]) ELSE text[i]]

\* C13: for every field identifier, snake_to_camel returns the identifier
\* whose text is the input without its underscores, with the first character
\* and the first character after every run of underscores in upper case and
\* every other character unchanged, and whose span is the input's span.
C13_SnakeToCamel ==
    converted # <<>> =>
        /\ converted[1].ok
        /\ converted[1].val.text = CapitalizedWords(arg_ident.text)
        /\ converted[1].val.span = arg_ident.span

\* C14: converting the result of snake_to_camel again gives the same
\* identifier, and a name without underscores that starts in upper case is
\* converted to itself; when the first conversion fails there is no second.
C14_Idempotent ==
    /\ (Len(converted) = 2 /\ converted[1].ok) => converted[2] = converted[1]
    /\ (converted # <<>> /\ KeptPositions(arg_ident.text) = 1..Len(arg_ident.text)
            /\ arg_ident.text[1] = "A")
        => converted[1] = Ok(arg_ident)
    /\ (converted # <<>> /\ ~converted[1].ok) => Len(converted) = 1

\* a name with an underscore in the middle has been converted twice
C14_Witness ==
    /\ Len(converted) = 2
    /\ converted[1].ok /\ converted[2].ok
    /\ arg_ident.text = <<"a", "_", "b">>
    /\ converted[2].val.text = <<"A", "B">>

(***************************************************************************)
(* Receiver adapters: properties                                           *)
(***************************************************************************)
\* C15: a notification panics only in a lock-based adapter that met a
\* poisoned lock; through every other adapter, the shared &RefCell one
\* included, receive() does not panic.
C15_OnlyPoisonFails ==
    pc = "panicked" =>
        /\ adapter \in LockAdapters
        /\ poisoned
        /\ failure = "poisoned lock"

\* what holds in every state of a lock-based adapter
LockAdapterState ==
    adapter \in LockAdapters =>
        /\ pc \in {"forward", "release"} => (holder = "adapter" /\ ~poisoned)
        /\ pc = "idle" => holder # "adapter"
        /\ (pc = "panicked" /\ failure = "poisoned lock") =>
                (Len(received) = last.n0 /\ holder # "adapter")

\* what holds of every step of a lock-based adapter
LockAdapterStep ==
    adapter \in LockAdapters =>
        /\ received' # received =>
                (holder = "adapter" /\ holder' = "adapter" /\ ~poisoned)
        /\ pc = "panicked" => (received' = received /\ pc' = "panicked")

\* C16: a lock-based adapter calls the inner receiver only while it holds
\* the lock's exclusive access and the lock is not poisoned, has given the
\* access back when the call has ended, and on a poisoned lock panics
\* without having called the inner receiver; after the panic the inner
\* receiver is never called (no retry).
C16_LockAdapters == []LockAdapterState /\ [][LockAdapterStep]_vars

\* a first notification went through the shared mutex, another thread
\* poisoned it, and the second notification panicked without forwarding
C16_Witness ==
    /\ adapter = "&Mutex"
    /\ pc = "panicked" /\ failure = "poisoned lock"
    /\ Len(received) = 1

(***************************************************************************)
(* modify_with against the scoped form                                     *)
(*   { let mut s = handle.modify(); f(&mut *s); }                          *)
(* Both are run with the same closure from the same state of the handle:   *)
(* first the scoped form, then, from the start state again, modify_with.   *)
(***************************************************************************)
HandleState == [target |-> target, received |-> received]

\* the logs a handle's receiver may hold when the comparison starts
StartLogs == {<<>>} \cup {<<v>> : v \in Vals}

EqInit ==
    /\ target \in Vals
    /\ received \in StartLogs
    /\ scopes = <<>>
    /\ pc = "idle"
    /\ panicking = FALSE
    /\ last = NoOp
    /\ eq_f \in Callbacks
    /\ eq_start = HandleState
    /\ eq_scoped = None
    /\ GenOff
    /\ CamelOff
    /\ AdapterOff
    /\ TableOff

\* let mut s = handle.modify();
EqModify ==
    /\ IsNone(eq_scoped)
    /\ last.op = "none"
    /\ Modify

\* f(&mut *s): DerefMut gives the closure the stored value to write
EqScopedCall ==
    /\ IsNone(eq_scoped)
    /\ last.op = "modify"
    /\ ScopeWrite(eq_f[target])

\* the closing brace: s is dropped
EqScopeEnd ==
    /\ IsNone(eq_scoped)
    /\ last.op = "deref_mut"
    /\ ScopeDrop("normal")

\* the scoped form's outcome is kept and the handle is put back into the
\* start state for the second run
EqRestart ==
    /\ IsNone(eq_scoped)
    /\ last.op = "drop"
    /\ eq_scoped' = Some(HandleState)
    /\ target' = eq_start.target
    /\ received' = eq_start.received
    /\ last' = NoOp
    /\ UNCHANGED <<scopes, pc, panicking, eq_f, eq_start>>
    /\ UNCHANGED <<gvars, cvars, avars, ivars>>

\* handle.modify_with(f), the closure returning normally
EqModifyWith ==
    /\ IsSome(eq_scoped)
    /\ last.op = "none"
    /\ ModifyWithCall(eq_f, FALSE)

EqModifyWithReceive ==
    /\ IsSome(eq_scoped)
    /\ ModifyWithReceive

EqNext ==
    \/ EqModify
    \/ EqScopedCall
    \/ EqScopeEnd
    \/ EqRestart
    \/ EqModifyWith
    \/ EqModifyWithReceive

EqSpec == EqInit /\ [][EqNext]_vars

EqBothRan ==
    /\ IsSome(eq_scoped)
    /\ last.op = "modify_with"
    /\ last.status = "returned"

\* C22: for a closure that returns normally, modify_with(f) and the scoped
\* form { let mut s = modify(); f(&mut *s); } started from the same state
\* end with the same stored value, f applied to the old value, and with the
\* same notifications: the ones there were and exactly one more, carrying
\* the value after the mutation.
C22_ModifyWithIsScopedForm ==
    EqBothRan =>
        /\ target = eq_scoped[1].target
        /\ received = eq_scoped[1].received
        /\ target = eq_f[eq_start.target]
        /\ received = Append(eq_start.received, eq_f[eq_start.target])

C22_Witness ==
    /\ EqBothRan
    /\ eq_f[eq_start.target] # eq_start.target
    /\ eq_start.received # <<>>

(***************************************************************************)
(* Receiver adapters: termination                                          *)
(***************************************************************************)
\* the thread that owns the handle keeps running inside receive(), another
\* thread that holds the lock gives it back, and a lock that is free again
\* and again is granted in the end
AdapterLiveSpec ==
    /\ AdapterSpec
    /\ SF_vars(AdapterAcquire)
    /\ WF_vars(AdapterForward)
    /\ WF_vars(AdapterRelease)
    /\ WF_vars(\E panics \in BOOLEAN : OtherRelease(panics))

\* C23: every call of set, modify_with or the drop of a scope that has
\* reached self.receiver.receive(self.target) ends, by returning or by a
\* panic, for every adapter, also when the shared lock is held by another
\* thread or by the thread that mutates.
C23_OperationsReturn == (pc = "receive") ~> (pc \in {"idle", "panicked"})

(***************************************************************************)
(* snake_to_camel: the marker identifier                                   *)
(***************************************************************************)
\* C29: for every field name, names that start with underscores, consist of
\* underscores or have a digit after the leading underscore included, the
\* call returns an identifier that is not empty and does not start with a
\* digit.
C29_UsableIdentifier ==
    converted # <<>> =>
        /\ converted[1].ok
        /\ converted[1].val.text # <<>>
        /\ converted[1].val.text[1] \notin Digits

(***************************************************************************)
(* The generated impl ::snec::Get<E> for the table: get_ref and get_handle *)
(* of one field, with the handles that get_handle returns                  *)
(***************************************************************************)
\* get_handle is called at most MaxHandles times
MaxHandles == 2

TableInit ==
    /\ target \in Vals
    /\ received = <<>>
    /\ scopes = <<>>
    /\ pc = "idle"
    /\ panicking = FALSE
    /\ last = NoOp
    /\ constructed = 0
    /\ made = 0
    /\ owner = 0
    /\ receivers = <<>>
    /\ got = None
    /\ GenOff
    /\ CamelOff
    /\ AdapterOff
    /\ EqOff

\* a get_handle that gives the new handle the receiver made before
get_handle_SameReceiver ==
    /\ owner = 0
    /\ made < MaxHandles
    /\ constructed' = IF constructed = 0 THEN 1 ELSE constructed
    /\ made' = made + 1
    /\ owner' = constructed'
    /\ received' = IF constructed = 0 THEN <<>> ELSE receivers[constructed]
    /\ last' = NoOp
    /\ UNCHANGED <<target, scopes, pc, panicking, receivers, got>>
    /\ UNCHANGED <<gvars, cvars, avars, evars>>

\* fn get_handle(&mut self): let receiver = { #receiver_expr };
\* ::snec::Handle::new(&mut self.#field_ident, receiver). The table is
\* borrowed mutably for as long as the handle lives.
get_handle ==
    /\ owner = 0
    /\ made < MaxHandles
    /\ constructed' = constructed + 1
    /\ made' = made + 1
    /\ owner' = constructed'
    /\ received' = <<>>
    /\ last' = NoOp
    /\ UNCHANGED <<target, scopes, pc, panicking, receivers, got>>
    /\ UNCHANGED <<gvars, cvars, avars, evars>>

\* fn get_ref(&self): &self.#field_ident
get_ref ==
    /\ owner = 0
    /\ got' = Some(target)
    /\ UNCHANGED <<hvars, constructed, made, owner, receivers>>
    /\ UNCHANGED <<gvars, cvars, avars, evars>>

RECURSIVE TotalLen(_, _)
\* how many notifications the receivers of the dropped handles got
TotalLen(logs, i) ==
    IF i > Len(logs) THEN 0 ELSE Len(logs[i]) + TotalLen(logs, i + 1)

\* at most MaxNotes notifications are delivered over all handles
TableRoom == Len(received) + TotalLen(receivers, 1) < MaxNotes

\* the handle's operations, on the handle that get_handle returned
TableSetWrite(new_value) == owner # 0 /\ TableRoom /\ SetWrite(new_value)
TableSetReceive == owner # 0 /\ SetReceive

\* the handle goes out of scope: its receiver goes with it and the borrow
\* of the table ends
HandleDrop ==
    /\ owner # 0
    /\ Ready
    /\ scopes = <<>>
    /\ receivers' = Append(receivers, received)
    /\ owner' = 0
    /\ received' = <<>>
    /\ last' = NoOp
    /\ UNCHANGED <<target, scopes, pc, panicking, constructed, made, got>>
    /\ UNCHANGED <<gvars, cvars, avars, evars>>

TableNext ==
    \/ get_handle
    \/ get_ref
    \/ \E v \in Vals : TableSetWrite(v)
    \/ TableSetReceive
    \/ HandleDrop

TableSpec == TableInit /\ [][TableNext]_vars

\* as many receivers were constructed as handles were returned, and the
\* live handle owns the newest one
OneReceiverPerHandle ==
    /\ constructed = made
    /\ Len(receivers) + (IF owner # 0 THEN 1 ELSE 0) = constructed
    /\ owner # 0 => owner = constructed
    /\ owner = 0 => received = <<>>

TableStep ==
    \* get_handle evaluates the receiver expression once, for the new handle,
    \* whose receiver has received nothing
    /\ made' # made =>
        /\ made' = made + 1
        /\ constructed' = constructed + 1
        /\ owner' = constructed'
        /\ received' = <<>>
    \* the receivers of other handles are not notified
    /\ \A i \in 1..Len(receivers) :
        /\ Len(receivers') >= i
        /\ receivers'[i] = receivers[i]
    \* a notification goes to the receiver of the handle operated on
    /\ Len(received') > Len(received) => (owner # 0 /\ owner' = owner)
    \* get_ref constructs nothing, notifies nothing and leaves the field
    /\ got' # got =>
        /\ got' = Some(target)
        /\ UNCHANGED <<target, received, receivers, constructed, made, owner>>

\* C30: every get_handle evaluates the receiver expression exactly once and
\* gives that receiver to the handle it returns; what is done through a
\* handle notifies that handle's receiver only; get_ref constructs and
\* notifies no receiver and does not change the field.
C30_OneReceiverPerHandle == []OneReceiverPerHandle /\ [][TableStep]_vars

C30_Witness ==
    /\ made = MaxHandles
    /\ owner = MaxHandles
    /\ received # <<>>
    /\ receivers[1] # <<>>
    /\ receivers[1] # received
    /\ IsSome(got)
====
